---------------------------- MODULE Spec2Model ----------------------------
(***************************************************************************)
(* Receipt core of slowdrip-miner: the session signer, the canonical       *)
(* digest, the Merkle batcher, the continuous pump (internal/receipts)     *)
(* and the QoS aggregator (internal/service), all in                       *)
(* src/internal/receipts/signer.go.                                        *)
(*                                                                         *)
(* Byte strings are sequences of tokens, every token a record: [b |-> n]   *)
(* is one byte, and a token of another shape stands for a fixed-length     *)
(* block that is only ever produced whole (a hash output, a key, a         *)
(* signature, a domain tag).  sha256 and ed25519 are symbolic: a hash is   *)
(* the token of its pre-image (so it is injective), a signature is the     *)
(* token of the private key halves and the message it was made from.       *)
(***************************************************************************)
EXTENDS Integers, Sequences, FiniteSets, TLC

(* ------------------------------ bounds --------------------------------- *)

\* number of distinct ed25519 seeds NewSessionSigner can draw
NumKeys == 2
\* largest sequence number an observation carries
MaxSeq == 2
\* largest nonce a caller passes (or the clock yields)
MaxNonce == 1
\* Agent.maxRecent, the capacity of a path's recentCommits: New sets it to
\* 64, the model runs add with a small capacity so that eviction is reached
maxRecent == 2
\* number of add calls in a run
MaxAdds == 3
\* number of flush calls in a run
MaxFlushes == 1
\* number of receipts in a batch handed to MerkleRoot or AggregateAnchor
MaxBatch == 3
\* number of observations the producers send on the pump's input channel
MaxProduced == 2
\* largest number of observations waiting on the input channel
MaxInCap == 1
\* largest buffer size of the pump's output channel (0: unbuffered)
MaxOutCap == 1
\* number of receipts Pump builds in a run (a closed input channel yields
\* zero observations without end)
MaxBuilt == 3
\* number of goroutines calling add concurrently, one call each
NumAdders == 2
\* number of Start calls in a run
MaxStarts == 2

(* --------------------------- byte strings ------------------------------ *)

B(n) == [b |-> n]

\* [32]byte{} : thirty-two zero bytes
Zero32 == [zeros |-> 32]

\* number of bytes a token stands for
TokenLen(t) ==
    IF "b" \in DOMAIN t THEN 1
    ELSE IF "sig" \in DOMAIN t THEN 64
    ELSE IF "tag" \in DOMAIN t THEN t.len
    ELSE 32

RECURSIVE ByteLen(_)
ByteLen(s) == IF s = <<>> THEN 0 ELSE TokenLen(Head(s)) + ByteLen(Tail(s))

\* sha256 over the bytes written to it
Sha256(bytes) == [sha256 |-> bytes]

\* the k-th byte (0 = least significant) of a 64-bit word; the model's
\* integers stay inside 32 bits, so bytes 4..7 are the sign extension
ByteOf(v, k) ==
    IF k >= 4 THEN (IF v < 0 THEN 255 ELSE 0)
    ELSE (v \div (256 ^ k)) % 256

putU64(v) == [i \in 1..8 |-> B(ByteOf(v, 8 - i))]

putI64(v) == putU64(v)

\* binary.BigEndian.PutUint16(lb[:], uint16(n))
PutUint16(n) == << B((n % 65536) \div 256), B(n % 256) >>

\* hex.EncodeToString of a 32-byte value: a 64-character string
Hex(x) == << [hex |-> x] >>

\* Go's string comparison a < b: byte-wise lexicographic, a proper prefix first
RECURSIVE StrLess(_, _)
StrLess(a, b) ==
    IF b = <<>> THEN FALSE
    ELSE IF a = <<>> THEN TRUE
    ELSE IF Head(a).b # Head(b).b THEN Head(a).b < Head(b).b
    ELSE StrLess(Tail(a), Tail(b))

\* variant: the keys sorted the wrong way round
RECURSIVE SortStringsDescending(_)
SortStringsDescending(S) ==
    IF S = {} THEN <<>>
    ELSE LET most == CHOOSE x \in S : \A y \in S : x = y \/ StrLess(y, x)
         IN  << most >> \o SortStringsDescending(S \ {most})

\* sort.Strings over the keys of a map (distinct strings)
RECURSIVE SortStrings(_)
SortStrings(S) ==
    IF S = {} THEN <<>>
    ELSE LET least == CHOOSE x \in S : \A y \in S : x = y \/ StrLess(x, y)
         IN  << least >> \o SortStrings(S \ {least})

(* ------------------------------ receipts ------------------------------- *)

ReceiptVersion == 1

DomainTag == << [tag |-> "SlowDrip:PoS-Receipt:v1", len |-> 23] >>

LeafTag == << [tag |-> "leaf", len |-> 4] >>

\* stream paths "a", "ab", "b" as byte strings
PathA == << B(97) >>
PathAB == << B(97), B(98) >>
PathB == << B(98) >>
Paths == {PathA, PathAB, PathB}

\* integrity commits, opaque 32-byte values
Commits == { [commit |-> 1], [commit |-> 2] }

\* deadlines and receive times in nanoseconds: receive times one before,
\* equal to, and one nanosecond after the deadline
Deadlines == {5}
RecvTimes == {4, 5, 6}

Sizes == {10, 20}

\* variant: the public key hashed along with the signed fields
DigestWithPubKey(rc) ==
    Sha256(DomainTag
           \o << B(rc.Version) >>
           \o PutUint16(Len(rc.Path)) \o rc.Path
           \o putU64(rc.Seq)
           \o putI64(rc.Size)
           \o putI64(rc.Deadline)
           \o putI64(rc.Recv)
           \o << rc.Commit >>
           \o putU64(rc.Nonce)
           \o rc.PubKey)

\* variant: only as many path bytes written as the 16-bit prefix announces
PreHashPathCut(rc) ==
    DomainTag
    \o << B(rc.Version) >>
    \o PutUint16(Len(rc.Path)) \o SubSeq(rc.Path, 1, Len(rc.Path) % 65536)
    \o putU64(rc.Seq)
    \o putI64(rc.Size)
    \o putI64(rc.Deadline)
    \o putI64(rc.Recv)
    \o << rc.Commit >>
    \o putU64(rc.Nonce)

\* the bytes digest writes to the hash, in order
PreHash(rc) ==
    DomainTag
    \o << B(rc.Version) >>
    \o PutUint16(Len(rc.Path)) \o rc.Path
    \o putU64(rc.Seq)
    \o putI64(rc.Size)
    \o putI64(rc.Deadline)
    \o putI64(rc.Recv)
    \o << rc.Commit >>
    \o putU64(rc.Nonce)

digest(rc) == Sha256(PreHash(rc))

\* service.SegmentReceipt values (Meta is never read)
SegmentReceipt(p, q, sz, d, t, c) ==
    [Path |-> p, Seq |-> q, Size |-> sz, Deadline |-> d, Recv |-> t, Commit |-> c]

FromSegment(sr, nonce) ==
    [Version |-> ReceiptVersion, Path |-> sr.Path, Seq |-> sr.Seq,
     Size |-> sr.Size, Deadline |-> sr.Deadline, Recv |-> sr.Recv,
     Commit |-> sr.Commit, Nonce |-> nonce, PubKey |-> <<>>, Sig |-> <<>>]

\* Receipt{} : the zero value
ZeroReceipt ==
    [Version |-> 0, Path |-> <<>>, Seq |-> 0, Size |-> 0, Deadline |-> 0,
     Recv |-> 0, Commit |-> Zero32, Nonce |-> 0, PubKey |-> <<>>, Sig |-> <<>>]

(* ------------------------------- ed25519 ------------------------------- *)

\* the public key ed25519 derives from a seed (seed 0 is the all-zero seed)
PubOfSeed(s) == [pk |-> s]

\* ed25519.GenerateKey: a 64-byte private key seed || public key, and a
\* separate copy of the public key
GenerateKey(k) ==
    [priv |-> [isNil |-> FALSE, seed |-> k, pub |-> PubOfSeed(k)],
     pub  |-> [isNil |-> FALSE, key |-> PubOfSeed(k)]]

\* ed25519.Sign: the scalar comes from the seed half, the public half is
\* hashed with the message
Ed25519Sign(priv, msg) == [sig |-> [seed |-> priv.seed, A |-> priv.pub, m |-> msg]]

Ed25519Verify(pub, msg, sig) ==
    /\ "sig" \in DOMAIN sig
    /\ "seed" \in DOMAIN sig.sig
    /\ PubOfSeed(sig.sig.seed) = pub
    /\ sig.sig.A = pub
    /\ sig.sig.m = msg

(* ---------------------------- SessionSigner ---------------------------- *)

\* var s *SessionSigner : the nil pointer
NilSigner ==
    [isNil |-> TRUE,
     priv |-> [isNil |-> TRUE, seed |-> 0, pub |-> Zero32],
     pub  |-> [isNil |-> TRUE, key |-> Zero32]]

\* &SessionSigner{} : no keys
ZeroSigner == [NilSigner EXCEPT !.isNil = FALSE]

NewSessionSignerValue(k) ==
    [isNil |-> FALSE, priv |-> GenerateKey(k).priv, pub |-> GenerateKey(k).pub]

\* Close: every byte of s.priv set to 0, the slice itself kept (a nil
\* slice stays nil); s.pub is a separate array and is not touched
CloseValue(s) ==
    IF s.priv.isNil THEN s
    ELSE [s EXCEPT !.priv = [isNil |-> FALSE, seed |-> 0, pub |-> Zero32]]

SignGuardFails(s) == s.isNil \/ s.priv.isNil \/ s.pub.isNil

\* a Sign that fills PubKey and stops
SignedReceiptPubKeyOnly(s, rc) ==
    [rc EXCEPT !.PubKey = << s.pub.key >>]

\* Sign's effect on the receipt when the guard passes
SignedReceipt(s, rc) ==
    [rc EXCEPT !.PubKey = << s.pub.key >>,
               !.Sig = << Ed25519Sign(s.priv, digest(rc)) >>]

\* a Verify that reports every failure as a bad signature
VerifyOneError(rc) ==
    IF ByteLen(rc.PubKey) # 32 \/ ByteLen(rc.Sig) # 64 THEN "bad signature"
    ELSE IF ~ Ed25519Verify(rc.PubKey[1], digest(rc), rc.Sig[1]) THEN "bad signature"
    ELSE "nil"

Verify(rc) ==
    IF ByteLen(rc.PubKey) # 32 THEN "invalid pubkey length"
    ELSE IF ByteLen(rc.Sig) # 64 THEN "invalid signature length"
    ELSE IF ~ Ed25519Verify(rc.PubKey[1], digest(rc), rc.Sig[1]) THEN "bad signature"
    ELSE "nil"

(* ------------------------------- state --------------------------------- *)

VARIABLES
    signer,            \* the SessionSigner s of the signer and pump scenarios
    closed,            \* s.Close() has been called on this signer
    r,                 \* the receipt being signed, tampered with and verified
    signRet,           \* result of the last s.Sign(&r): "none" before any call
    signedAfterClose,  \* that Sign call started after Close
    tampered,          \* r was changed after it was signed
    verifyRet          \* result of the last Verify(r): "none" before any call

VARIABLES
    rcopy,             \* r2 := r, a copy of the receipt struct made by a holder
    aliasing,          \* "none": no copy; "shared": the copy's PubKey and Sig slices
                       \* have the backing arrays of r's; "own": they do not
    copySignRet,       \* result of s.Sign(&r2): "none" before the call
    basRet             \* what the last BuildAndSign call returned

copyVars == << rcopy, aliasing, copySignRet, basRet >>

VARIABLES
    perPath,           \* Agent.perPath: known path -> streamStats
    lastFlush,         \* Agent.lastFlush, counted in flushes that logged
    flushOut,          \* what the last flush logged
    hist,              \* every observation passed to add, in call order
    flushCalls         \* number of flush calls made

VARIABLES
    mu,                \* Agent.mu: 0 when free, else the goroutine holding it
    pc,                \* each goroutine's position in add or flush
    arg,               \* the observation each adding goroutine was called with
    flushLocal         \* flush's locals: keys, the lines logged, the bytes
                       \* written to the global hash

concVars == << mu, pc, arg, flushLocal >>

VARIABLES
    rs,                \* the caller's slice of receipts (AggregateAnchor sorts it in place)
    calls,             \* the AggregateAnchor calls made on the current batch, at most two
    rootRet            \* the MerkleRoot call made on the slice as it stands: its
                       \* input and its result, << >> when the slice changed since

anchorVars == << rs, calls, rootRet >>

VARIABLES
    ctxDone,           \* ctx.Done() is closed: cancellation has been raised
    inCh,              \* observations ready to be received from `in`, oldest first
    inClosed,          \* `in` has been closed by its producer
    produced,          \* observations sent on `in` so far
    outCap,            \* buffer size of `out`
    outBuf,            \* receipts buffered in `out`
    received,          \* receipts a consumer has received from `out`
    pumpPc,            \* Pump's position: "select", "send" (at out <- r), "returned"
    pumpR,             \* the signed receipt Pump holds at out <- r
    pumpRet,           \* Pump's return value, "running" before it returns
    dequeued,          \* observations Pump has received from `in`
    sentLog            \* the observations the producers sent on `in`, in order

pumpVars == << ctxDone, inCh, inClosed, produced, outCap, outBuf, received,
               pumpPc, pumpR, pumpRet, dequeued, sentLog >>

VARIABLES
    encA,              \* two receipts handed to digest,
    encB,
    encEqual           \* and whether the byte strings digest hashed for them
                       \* are the same: "none" before digest has run

encVars == << encA, encB, encEqual >>

VARIABLES
    defaultAgent,      \* the package variable: "nil" until Start's once.Do sets it
    startCalls,        \* number of Start calls made
    dropped            \* the observations AddReceipt returned on without add

startVars == << defaultAgent, startCalls, dropped >>

auxVars == << encVars, startVars >>

signerVars == << signer, closed, r, signRet, signedAfterClose, tampered, verifyRet,
                 copyVars >>

agentVars == << perPath, lastFlush, flushOut, hist, flushCalls, concVars >>

vars == << signerVars, agentVars, anchorVars, pumpVars, auxVars >>

\* BuildAndSign not called yet
NoReturn == [rcpt |-> ZeroReceipt, err |-> "none"]

\* no copy of r made, BuildAndSign not called
IdleCopy ==
    /\ rcopy = ZeroReceipt
    /\ aliasing = "none"
    /\ copySignRet = "none"
    /\ basRet = NoReturn

\* the values the variables of the other scenarios keep
IdleSigner ==
    /\ signer = NilSigner
    /\ closed = FALSE
    /\ r = ZeroReceipt
    /\ signRet = "none"
    /\ signedAfterClose = FALSE
    /\ tampered = FALSE
    /\ verifyRet = "none"
    /\ IdleCopy

\* the goroutines of the concurrent scenario: the callers of add, and the
\* ticker loop of Start that calls flush
Adders == 1..NumAdders
Flusher == NumAdders + 1
Goroutines == Adders \cup {Flusher}

\* no observation yet
NoObservation == SegmentReceipt(<< >>, 0, 0, 0, 0, Zero32)

NoFlushLocal == [keys |-> << >>, lines |-> << >>, global |-> << >>]

\* no goroutine has called add or flush
IdleConc ==
    /\ mu = 0
    /\ pc = [g \in Goroutines |-> "idle"]
    /\ arg = [g \in Adders |-> NoObservation]
    /\ flushLocal = NoFlushLocal

IdleAgent ==
    /\ perPath = << >>
    /\ lastFlush = 0
    /\ flushOut = << >>
    /\ hist = << >>
    /\ flushCalls = 0
    /\ IdleConc

IdleAnchor ==
    /\ rs = << >>
    /\ calls = << >>
    /\ rootRet = << >>

IdleAux ==
    /\ encA = ZeroReceipt
    /\ encB = ZeroReceipt
    /\ encEqual = "none"
    /\ defaultAgent = "nil"
    /\ startCalls = 0
    /\ dropped = << >>

IdlePump ==
    /\ ctxDone = FALSE
    /\ inCh = << >>
    /\ inClosed = FALSE
    /\ produced = 0
    /\ outCap = 0
    /\ outBuf = << >>
    /\ received = << >>
    /\ pumpPc = "select"
    /\ pumpR = ZeroReceipt
    /\ pumpRet = "running"
    /\ dequeued = 0
    /\ sentLog = << >>

(* ------------------------- signer scenario ----------------------------- *)

Seeds == 1..NumKeys

Segments ==
    { SegmentReceipt(p, q, sz, d, t, c) :
        p \in {PathA, PathB}, q \in 1..MaxSeq, sz \in {10}, d \in Deadlines,
        t \in {5, 6}, c \in Commits }

InitSigner ==
    /\ signer \in {NilSigner, ZeroSigner}
    /\ closed = FALSE
    /\ r = ZeroReceipt
    /\ signRet = "none"
    /\ signedAfterClose = FALSE
    /\ tampered = FALSE
    /\ verifyRet = "none"
    /\ IdleCopy
    /\ IdleAgent
    /\ IdleAnchor
    /\ IdlePump
    /\ IdleAux

\* s, err := NewSessionSigner(id) with the entropy source yielding seed k
NewSessionSigner(k) ==
    /\ signer' = NewSessionSignerValue(k)
    /\ closed' = FALSE
    /\ UNCHANGED << r, signRet, signedAfterClose, tampered, verifyRet, copyVars, agentVars, anchorVars, pumpVars, auxVars >>

\* s.Close(); on a nil pointer the range over s.priv dereferences nil and
\* panics, so the call is modelled for non-nil signers only
Close ==
    /\ ~ signer.isNil
    /\ signer' = CloseValue(signer)
    /\ closed' = TRUE
    /\ UNCHANGED << r, signRet, signedAfterClose, tampered, verifyRet, copyVars, agentVars, anchorVars, pumpVars, auxVars >>

\* r := FromSegment(sr, nonce)
BuildReceipt(sr, nonce) ==
    /\ r' = FromSegment(sr, nonce)
    /\ signRet' = "none"
    /\ signedAfterClose' = FALSE
    /\ tampered' = FALSE
    /\ verifyRet' = "none"
    /\ rcopy' = ZeroReceipt
    /\ aliasing' = "none"
    /\ copySignRet' = "none"
    /\ basRet' = NoReturn
    /\ UNCHANGED << signer, closed, agentVars, anchorVars, pumpVars, auxVars >>

\* err := s.Sign(&r)
Sign ==
    /\ signRet = "none"
    /\ r # ZeroReceipt
    /\ IF SignGuardFails(signer)
         THEN /\ signRet' = "signer not initialized"
              /\ r' = r
         ELSE /\ signRet' = "nil"
              /\ r' = SignedReceipt(signer, r)
    /\ signedAfterClose' = closed
    /\ UNCHANGED << signer, closed, tampered, verifyRet, copyVars, agentVars, anchorVars, pumpVars, auxVars >>

\* the single-field changes of a signed receipt
Tamperings(rc) ==
    ( { [rc EXCEPT !.Version = 2] }
    \cup { [rc EXCEPT !.Path = p] : p \in Paths \ {rc.Path} }
    \cup { [rc EXCEPT !.Seq = q] : q \in (0..MaxSeq) \ {rc.Seq} }
    \cup { [rc EXCEPT !.Size = sz] : sz \in Sizes \ {rc.Size} }
    \cup { [rc EXCEPT !.Deadline = d] : d \in RecvTimes \ {rc.Deadline} }
    \cup { [rc EXCEPT !.Recv = t] : t \in RecvTimes \ {rc.Recv} }
    \cup { [rc EXCEPT !.Commit = c] : c \in Commits \ {rc.Commit} }
    \cup { [rc EXCEPT !.Nonce = n] : n \in (0..MaxNonce) \ {rc.Nonce} }
    \cup { [rc EXCEPT !.Sig = << Ed25519Sign(GenerateKey(k).priv, digest(x)) >>] :
              k \in Seeds, x \in {rc, [rc EXCEPT !.Nonce = 1 - rc.Nonce]} }
    \cup { [rc EXCEPT !.Sig = << >>], [rc EXCEPT !.PubKey = << >>] }
    \cup { [rc EXCEPT !.PubKey = << PubOfSeed(k) >>] : k \in Seeds } )
    \ {rc}

\* a holder of the signed receipt changes one signed field or the signature
Tamper ==
    /\ signRet = "nil"
    /\ ~ tampered
    /\ aliasing = "none"
    /\ \E t \in Tamperings(r) : r' = t
    /\ tampered' = TRUE
    /\ verifyRet' = "none"
    /\ UNCHANGED << signer, closed, signRet, signedAfterClose, copyVars, agentVars, anchorVars, pumpVars, auxVars >>

\* err := Verify(r)
VerifyCall ==
    /\ signRet # "none"
    /\ verifyRet = "none"
    /\ verifyRet' = Verify(r)
    /\ UNCHANGED << signer, closed, r, signRet, signedAfterClose, tampered, copyVars, agentVars, anchorVars, pumpVars, auxVars >>

\* r2 := r : the struct is copied, the slice headers with it, so after r
\* was signed the copy's PubKey and Sig point into r's backing arrays
CopyReceipt ==
    /\ r # ZeroReceipt
    /\ aliasing = "none"
    /\ ~ tampered
    /\ rcopy' = r
    /\ aliasing' = IF r.PubKey # << >> THEN "shared" ELSE "own"
    /\ UNCHANGED << signer, closed, r, signRet, signedAfterClose, tampered, verifyRet,
                    copySignRet, basRet, agentVars, anchorVars, pumpVars, auxVars >>

\* what Sign(&r2) leaves in r when r2's slices share r's backing arrays:
\* append(r2.PubKey[:0], s.pub...) and append(r2.Sig[:0], sig...) fit the
\* capacity (32 and 64 bytes) and write in place
WriteThrough(orig, signedCopy) ==
    [orig EXCEPT !.PubKey = signedCopy.PubKey, !.Sig = signedCopy.Sig]

\* err := s.Sign(&r2), with the signer s now stands for
SignCopy ==
    /\ aliasing # "none"
    /\ copySignRet = "none"
    /\ IF SignGuardFails(signer)
         THEN /\ copySignRet' = "signer not initialized"
              /\ UNCHANGED << rcopy, r, verifyRet >>
         ELSE /\ copySignRet' = "nil"
              /\ rcopy' = SignedReceipt(signer, rcopy)
              /\ r' = IF aliasing = "shared"
                         THEN WriteThrough(r, SignedReceipt(signer, rcopy))
                         ELSE r
              /\ verifyRet' = IF r' = r THEN verifyRet ELSE "none"
    /\ UNCHANGED << signer, closed, signRet, signedAfterClose, tampered, aliasing,
                    basRet, agentVars, anchorVars, pumpVars, auxVars >>

\* what BuildAndSign returns
BuildAndSignValue(s, sr, nonce) ==
    IF SignGuardFails(s)
    THEN [rcpt |-> ZeroReceipt, err |-> "signer not initialized"]
    ELSE [rcpt |-> SignedReceipt(s, FromSegment(sr, nonce)), err |-> "nil"]

\* rcpt, err := BuildAndSign(s, sr, nonce), the caller starting afresh
BuildAndSign(sr, nonce) ==
    /\ r = ZeroReceipt
    /\ basRet' = BuildAndSignValue(signer, sr, nonce)
    /\ r' = ZeroReceipt
    /\ signRet' = "none"
    /\ signedAfterClose' = FALSE
    /\ tampered' = FALSE
    /\ verifyRet' = "none"
    /\ rcopy' = ZeroReceipt
    /\ aliasing' = "none"
    /\ copySignRet' = "none"
    /\ UNCHANGED << signer, closed, agentVars, anchorVars, pumpVars, auxVars >>

NextSigner ==
    \/ \E k \in Seeds : NewSessionSigner(k)
    \/ Close
    \/ \E sr \in Segments, n \in 0..MaxNonce : BuildReceipt(sr, n)
    \/ Sign
    \/ Tamper
    \/ VerifyCall
    \/ CopyReceipt
    \/ SignCopy
    \/ \E sr \in Segments, n \in 0..MaxNonce : BuildAndSign(sr, n)

SpecSigner == InitSigner /\ [][NextSigner]_vars

\* C1: whenever Sign returned no error, Verify of the signed receipt returns
\* no error, and Verify of the receipt with one signed field or the
\* signature changed returns an error -- in every state the signer can
\* reach, after Close included.
C1_SignVerifyRoundTrip ==
    (signRet = "nil" /\ verifyRet # "none") =>
        (IF tampered THEN verifyRet # "nil" ELSE verifyRet = "nil")

\* C2: a Sign call that starts after Close returns the
\* "signer not initialized" error.
C2_SignAfterCloseFails ==
    (signRet # "none" /\ signedAfterClose) => signRet = "signer not initialized"

\* C11: once Sign has filled r.PubKey and r.Sig, no operation performed
\* on a copy of r (signing the copy included) changes r.PubKey or r.Sig.
C11_SignedReceiptImmutable ==
    [][ (signRet = "nil" /\ signRet' = "nil" /\ tampered' = tampered) =>
            (r'.PubKey = r.PubKey /\ r'.Sig = r.Sig) ]_vars

\* both fields empty or both filled
BothOrNeither(rc) == (rc.PubKey = << >>) <=> (rc.Sig = << >>)

\* PubKey is the 32-byte public key of s and Sig has 64 bytes
FilledBy(s, rc) ==
    /\ rc.PubKey = << s.pub.key >>
    /\ ByteLen(rc.PubKey) = 32
    /\ ByteLen(rc.Sig) = 64

\* C12: a Sign that returns an error leaves PubKey and Sig as they were and
\* BuildAndSign then returns the zero Receipt; a Sign that returns nil has
\* set PubKey to the signer's 32-byte public key and Sig to 64 bytes; no
\* receipt that Sign or BuildAndSign hands back has exactly one of the two.
C12_SignBothOrNeither ==
    [][ /\ (signRet = "none" /\ signRet' = "signer not initialized") =>
              (r'.PubKey = r.PubKey /\ r'.Sig = r.Sig)
        /\ (signRet = "none" /\ signRet' = "nil") => FilledBy(signer, r')
        /\ (copySignRet = "none" /\ copySignRet' = "signer not initialized") =>
              (rcopy'.PubKey = rcopy.PubKey /\ rcopy'.Sig = rcopy.Sig)
        /\ (copySignRet = "none" /\ copySignRet' = "nil") => FilledBy(signer, rcopy')
        /\ (basRet'.err = "signer not initialized") => basRet'.rcpt = ZeroReceipt
        /\ (basRet'.err = "nil" /\ basRet' # basRet) => FilledBy(signer, basRet'.rcpt)
        /\ (signRet' # "none" /\ ~ tampered') => BothOrNeither(r')
        /\ (copySignRet' # "none") => BothOrNeither(rcopy')
        /\ BothOrNeither(basRet'.rcpt) ]_vars

\* Sign has failed on r and left it unsigned; the same receipt, copied,
\* has then been signed by an initialised signer
C12_Witness ==
    /\ signRet = "signer not initialized"
    /\ r # ZeroReceipt
    /\ r.PubKey = << >> /\ r.Sig = << >>
    /\ copySignRet = "nil"
    /\ FilledBy(signer, rcopy)

\* rc.Sig is the signature of digest(rc) under the key pair whose public
\* half is rc.PubKey
SigMatchesDigest(rc) ==
    \E k \in Seeds :
        /\ rc.PubKey = << PubOfSeed(k) >>
        /\ rc.Sig = << Ed25519Sign(GenerateKey(k).priv, digest(rc)) >>

LengthsRight(rc) == ByteLen(rc.PubKey) = 32 /\ ByteLen(rc.Sig) = 64

\* C13: Verify returns a length error whenever PubKey is not 32 bytes or
\* Sig is not 64 bytes, "bad signature" (a different error) when the lengths
\* are right and Sig is not a signature of digest(r) under PubKey, and nil
\* in exactly the remaining case.
C13_VerifyErrors ==
    verifyRet # "none" =>
        /\ ~ LengthsRight(r) =>
              verifyRet \in {"invalid pubkey length", "invalid signature length"}
        /\ (LengthsRight(r) /\ ~ SigMatchesDigest(r)) => verifyRet = "bad signature"
        /\ verifyRet = "nil" <=> (LengthsRight(r) /\ SigMatchesDigest(r))

\* Verify has rejected a receipt whose signature was cut off
C13_Witness ==
    /\ verifyRet = "invalid signature length"
    /\ ByteLen(r.PubKey) = 32
    /\ tampered

\* the two receipts agree on the eight signed fields
SameSignedFields(a, b) ==
    /\ a.Version = b.Version /\ a.Path = b.Path /\ a.Seq = b.Seq
    /\ a.Size = b.Size /\ a.Deadline = b.Deadline /\ a.Recv = b.Recv
    /\ a.Commit = b.Commit /\ a.Nonce = b.Nonce

\* C18: two receipts that agree on Version, Path, Seq, Size, Deadline,
\* Recv, Commit and Nonce have the same digest, whatever their PubKey and
\* Sig and whichever signer filled them; and the digest Sign took of a
\* receipt before filling PubKey and Sig is the digest of the signed
\* receipt.
C18_DigestOfSignedFieldsOnly ==
    /\ \A a, b \in {r, rcopy, basRet.rcpt} :
          SameSignedFields(a, b) => digest(a) = digest(b)
    /\ (signRet = "nil" /\ ~ tampered) => r.Sig[1].sig.m = digest(r)
    /\ copySignRet = "nil" => rcopy.Sig[1].sig.m = digest(rcopy)

\* one receipt and its copy, signed by two signers with different keys
C18_Witness ==
    /\ signRet = "nil"
    /\ copySignRet = "nil"
    /\ aliasing = "own"
    /\ SameSignedFields(r, rcopy)
    /\ r.PubKey # rcopy.PubKey
    /\ r.Sig # rcopy.Sig
    /\ digest(r) = digest(rcopy)

(* ------------------------- digest's encoding --------------------------- *)

\* the number of values of the uint16 length prefix
Uint16Range == 65536

\* paths handed to digest: empty, one byte, nine bytes (a path that ends
\* like an encoded sequence number), and 65536 and 65537 bytes, whose
\* prefixes wrap to those of the empty and the one-byte paths
EncPaths ==
    { << >>, PathA, PathB, PathA \o putU64(0),
      [i \in 1..Uint16Range |-> B(97)],
      [i \in 1..(Uint16Range + 1) |-> B(97)],
      [i \in 1..(Uint16Range + 1) |-> B(98)] }

EncReceipts ==
    { FromSegment(SegmentReceipt(p, q, 10, 5, 5, [commit |-> 1]), 0) :
        p \in EncPaths, q \in {0, 1} }

InitEncode ==
    /\ IdleSigner
    /\ IdleAgent
    /\ IdleAnchor
    /\ IdlePump
    /\ IdleAux

\* two receipts are picked
TakeReceipts(a, b) ==
    /\ encA = ZeroReceipt
    /\ encB = ZeroReceipt
    /\ encA' = a
    /\ encB' = b
    /\ encEqual' = "none"
    /\ UNCHANGED << signerVars, agentVars, anchorVars, pumpVars, startVars >>

\* digest runs on both: the byte strings written to the two hashes
DigestBoth ==
    /\ encA # ZeroReceipt
    /\ encEqual = "none"
    /\ encEqual' = IF PreHash(encA) = PreHash(encB) THEN "equal" ELSE "different"
    /\ UNCHANGED << encA, encB, signerVars, agentVars, anchorVars, pumpVars, startVars >>

NextEncode ==
    \/ \E a, b \in EncReceipts : TakeReceipts(a, b)
    \/ DigestBoth

SpecEncode == InitEncode /\ [][NextEncode]_vars

\* C22: two receipts that differ in a signed field have different byte
\* strings hashed by digest, for paths of every length, those of 65536
\* bytes and more (whose 16-bit length prefix wraps) included.
C22_EncodingUnambiguous ==
    (encEqual # "none" /\ ~ SameSignedFields(encA, encB)) => encEqual = "different"

\* a path of 65537 bytes against the one-byte path it starts with: the
\* same length prefix, all other fields equal
C22_Witness ==
    /\ encEqual = "different"
    /\ Len(encA.Path) = 65537
    /\ encB.Path = << [b |-> 97] >>
    /\ encA.Path[1] = encB.Path[1]
    /\ encA.Seq = encB.Seq
    /\ PutUint16(Len(encA.Path)) = PutUint16(Len(encB.Path))

(* --------------------------- QoS aggregator ---------------------------- *)

\* &streamStats{}
ZeroStats ==
    [Accepted |-> 0, Late |-> 0, Bytes |-> 0, LastSeq |-> 0,
     rolling |-> Zero32, recentCommits |-> << >>]

\* variant: a strict comparison, Recv = Deadline counted late
OnTimeStrict(sr) == sr.Recv < sr.Deadline

\* onTime := !r.Recv.After(r.Deadline)
OnTime(sr) == ~ (sr.Recv > sr.Deadline)

\* variant: each hash started from the zero value, the chain dropped
RollingUnchained(old, sr) ==
    Sha256(<< Zero32 >> \o << sr.Commit >> \o putU64(sr.Seq) \o putU64(sr.Size)
           \o putU64(sr.Deadline) \o putU64(sr.Recv))

\* rolling = H(rolling || Commit || Seq || Size || Deadline || Recv)
Rolling(old, sr) ==
    Sha256(<< old >> \o << sr.Commit >> \o putU64(sr.Seq) \o putU64(sr.Size)
           \o putU64(sr.Deadline) \o putU64(sr.Recv))

\* variant: the slice trimmed at the wrong end, keeping the oldest commits
KeepOldest(cs, c) ==
    IF Len(cs) + 1 > maxRecent THEN SubSeq(Append(cs, c), 1, maxRecent)
    ELSE Append(cs, c)

\* append, then keep the last maxRecent commits
AppendRecent(cs, c) ==
    IF Len(cs) + 1 > maxRecent
    THEN SubSeq(Append(cs, c), Len(cs) + 1 - maxRecent + 1, Len(cs) + 1)
    ELSE Append(cs, c)

\* variant: Bytes also raised for a late observation
BytesCountLate(st, sr) ==
    LET seen == IF sr.Seq > st.LastSeq THEN [st EXCEPT !.LastSeq = sr.Seq] ELSE st
    IN  IF OnTime(sr)
        THEN [seen EXCEPT !.Accepted = @ + 1,
                          !.Bytes = @ + sr.Size,
                          !.rolling = Rolling(@, sr),
                          !.recentCommits = AppendRecent(@, sr.Commit)]
        ELSE [seen EXCEPT !.Late = @ + 1, !.Bytes = @ + sr.Size]

\* variant: the rolling hash and the ring updated before the on-time test
LateFoldsRolling(st, sr) ==
    LET seen == IF sr.Seq > st.LastSeq THEN [st EXCEPT !.LastSeq = sr.Seq] ELSE st
        fold == [seen EXCEPT !.rolling = Rolling(@, sr),
                             !.recentCommits = AppendRecent(@, sr.Commit)]
    IN  IF OnTime(sr)
        THEN [fold EXCEPT !.Accepted = @ + 1, !.Bytes = @ + sr.Size]
        ELSE [fold EXCEPT !.Late = @ + 1]

\* variant: LastSeq set to the sequence number of every observation
LastSeqOverwritten(st, sr) ==
    LET seen == [st EXCEPT !.LastSeq = sr.Seq]
    IN  IF OnTime(sr)
        THEN [seen EXCEPT !.Accepted = @ + 1,
                          !.Bytes = @ + sr.Size,
                          !.rolling = Rolling(@, sr),
                          !.recentCommits = AppendRecent(@, sr.Commit)]
        ELSE [seen EXCEPT !.Late = @ + 1]

\* the body of add on the path's stats; the counters are int64 and the
\* modelled sizes keep every sum far from 2^63
AddStats(st, sr) ==
    LET seen == IF sr.Seq > st.LastSeq THEN [st EXCEPT !.LastSeq = sr.Seq] ELSE st
    IN  IF OnTime(sr)
        THEN [seen EXCEPT !.Accepted = @ + 1,
                          !.Bytes = @ + sr.Size,
                          !.rolling = Rolling(@, sr),
                          !.recentCommits = AppendRecent(@, sr.Commit)]
        ELSE [seen EXCEPT !.Late = @ + 1]

\* st := a.perPath[r.Path]; if st == nil { st = &streamStats{} ... }
StatsOf(pp, p) == IF p \in DOMAIN pp THEN pp[p] ELSE ZeroStats

\* observations handed to the aggregator: the size and the commit follow
\* the sequence number's parity so that both vary along a run; one
\* observation is on a third path whose name has another's as a prefix
Observations ==
    { SegmentReceipt(p, q, 10 + 10 * (q % 2), d, t, [commit |-> 1 + (q % 2)]) :
        p \in {PathA, PathB}, q \in 0..MaxSeq, d \in Deadlines, t \in {5, 6} }
    \cup { SegmentReceipt(PathAB, 1, 20, 5, 5, [commit |-> 2]) }

InitAgent ==
    /\ IdleSigner
    /\ IdleAgent
    /\ IdleAnchor
    /\ IdlePump
    /\ IdleAux

\* variant: the map replaced by one holding the observed path alone
addForgetsOthers(sr) ==
    /\ Len(hist) < MaxAdds
    /\ perPath' = (sr.Path :> AddStats(StatsOf(perPath, sr.Path), sr))
    /\ hist' = Append(hist, sr)
    /\ UNCHANGED << lastFlush, flushOut, flushCalls, concVars, signerVars, anchorVars, pumpVars, auxVars >>

\* a.add(sr), under a.mu from the first read of perPath to the return
add(sr) ==
    /\ Len(hist) < MaxAdds
    /\ perPath' = (sr.Path :> AddStats(StatsOf(perPath, sr.Path), sr)) @@ perPath
    /\ hist' = Append(hist, sr)
    /\ UNCHANGED << lastFlush, flushOut, flushCalls, concVars, signerVars, anchorVars, pumpVars, auxVars >>

\* the per-path log lines of flush, in the order of the sorted keys
FlushLines(pp) ==
    LET keys == SortStrings(DOMAIN pp)
    IN  [i \in 1..Len(keys) |->
            [path |-> keys[i], last_seq |-> pp[keys[i]].LastSeq,
             accepted |-> pp[keys[i]].Accepted, late |-> pp[keys[i]].Late,
             bytes |-> pp[keys[i]].Bytes, anchor |-> Hex(pp[keys[i]].rolling)]]

\* what flush writes into the global hash: path name, then rolling anchor
RECURSIVE GlobalBytes(_, _)
GlobalBytes(pp, keys) ==
    IF keys = << >> THEN << >>
    ELSE Head(keys) \o << pp[Head(keys)].rolling >> \o GlobalBytes(pp, Tail(keys))

GlobalAnchor(pp) == Hex(Sha256(GlobalBytes(pp, SortStrings(DOMAIN pp))))

\* a.flush(ctx), under a.mu
\* variant: a flush that starts a new window, the counters set back to 0
flushResetsWindow ==
    /\ flushCalls < MaxFlushes
    /\ flushCalls' = flushCalls + 1
    /\ IF DOMAIN perPath = {}
         THEN UNCHANGED << lastFlush, flushOut >>
         ELSE /\ flushOut' = [lines |-> FlushLines(perPath),
                              global_anchor |-> GlobalAnchor(perPath)]
              /\ lastFlush' = lastFlush + 1
    /\ perPath' = [p \in DOMAIN perPath |->
                     [perPath[p] EXCEPT !.Accepted = 0, !.Late = 0, !.Bytes = 0]]
    /\ UNCHANGED << hist, concVars, signerVars, anchorVars, pumpVars, auxVars >>

\* a.flush(ctx), under a.mu
flush ==
    /\ flushCalls < MaxFlushes
    /\ flushCalls' = flushCalls + 1
    /\ IF DOMAIN perPath = {}
         THEN UNCHANGED << lastFlush, flushOut >>
         ELSE /\ flushOut' = [lines |-> FlushLines(perPath),
                              global_anchor |-> GlobalAnchor(perPath)]
              /\ lastFlush' = lastFlush + 1
    /\ UNCHANGED << perPath, hist, concVars, signerVars, anchorVars, pumpVars, auxVars >>

NextAgent ==
    \/ \E sr \in Observations : add(sr)
    \/ flush

SpecAgent == InitAgent /\ [][NextAgent]_vars

\* the observations recorded for path p, in call order
ObsOf(p) == SelectSeq(hist, LAMBDA o : o.Path = p)

RECURSIVE SumSize(_)
SumSize(os) == IF os = << >> THEN 0 ELSE Head(os).Size + SumSize(Tail(os))

InTime(p) == SelectSeq(ObsOf(p), LAMBDA o : o.Recv <= o.Deadline)
TooLate(p) == SelectSeq(ObsOf(p), LAMBDA o : o.Recv > o.Deadline)

\* C3: after any sequence of add calls, for every path Accepted is the
\* number of recorded observations with Recv <= Deadline, Late the number
\* with Recv > Deadline, Bytes the sum of Size over the on-time ones only,
\* and Accepted + Late the number of add calls for the path.
C3_CountersMatchHistory ==
    \A p \in Paths :
        LET st == StatsOf(perPath, p)
        IN  /\ st.Accepted = Len(InTime(p))
            /\ st.Late = Len(TooLate(p))
            /\ st.Bytes = SumSize(InTime(p))
            /\ st.Accepted + st.Late = Len(ObsOf(p))

\* a path with on-time and late observations of different sizes, one of
\* them a repeat of an earlier sequence number
C3_Witness ==
    \E p \in DOMAIN perPath :
        /\ Len(InTime(p)) >= 1
        /\ Len(TooLate(p)) >= 1
        /\ perPath[p].Bytes = SumSize(InTime(p))
        /\ perPath[p].Bytes < SumSize(ObsOf(p))
        /\ \E i, j \in 1..Len(ObsOf(p)) : i < j /\ ObsOf(p)[j].Seq <= ObsOf(p)[i].Seq

\* C4: every add call counts its observation as accepted when
\* Recv <= Deadline (Recv = Deadline included) and as late otherwise
\* (Recv = Deadline + 1ns included).
C4_BoundaryClassification ==
    [][ Len(hist') = Len(hist) + 1 =>
          LET sr  == hist'[Len(hist')]
              old == StatsOf(perPath, sr.Path)
              new == perPath'[sr.Path]
          IN  /\ sr.Recv <= sr.Deadline =>
                    new.Accepted = old.Accepted + 1 /\ new.Late = old.Late
              /\ sr.Recv >= sr.Deadline + 1 =>
                    new.Late = old.Late + 1 /\ new.Accepted = old.Accepted ]_vars

\* both boundary cases recorded: Recv = Deadline accepted, Recv = Deadline + 1 late
C4_Witness ==
    \E p \in DOMAIN perPath :
        /\ \E i \in 1..Len(hist) : hist[i].Path = p /\ hist[i].Recv = hist[i].Deadline
        /\ \E i \in 1..Len(hist) : hist[i].Path = p /\ hist[i].Recv = hist[i].Deadline + 1
        /\ perPath[p].Accepted >= 1
        /\ perPath[p].Late >= 1

\* the commits of the on-time observations of p, in arrival order
InTimeCommits(p) == [i \in 1..Len(InTime(p)) |-> InTime(p)[i].Commit]

LastN(s, n) == IF Len(s) <= n THEN s ELSE SubSeq(s, Len(s) - n + 1, Len(s))

\* C5: in every reachable state a path's recentCommits holds at most
\* maxRecent commits, and they are the last min(k, maxRecent) commits of
\* the path's k on-time observations, in arrival order.
C5_RecentCommitsRing ==
    \A p \in DOMAIN perPath :
        /\ Len(perPath[p].recentCommits) <= maxRecent
        /\ perPath[p].recentCommits = LastN(InTimeCommits(p), maxRecent)

\* a path past its capacity whose oldest commit, different from the newest,
\* was evicted
C5_Witness ==
    \E p \in DOMAIN perPath :
        /\ Len(InTime(p)) > maxRecent
        /\ Len(perPath[p].recentCommits) = maxRecent
        /\ InTimeCommits(p)[1] # InTimeCommits(p)[Len(InTime(p))]
        /\ perPath[p].recentCommits[1] # perPath[p].recentCommits[maxRecent]

\* C15: an add call with a late observation (Recv > Deadline) raises the
\* path's Late by one and leaves its Accepted, Bytes, rolling anchor and
\* recentCommits as they were; LastSeq stays or rises.
C15_LateObservationFrame ==
    [][ (Len(hist') = Len(hist) + 1 /\
         hist'[Len(hist')].Recv > hist'[Len(hist')].Deadline) =>
          LET sr  == hist'[Len(hist')]
              old == StatsOf(perPath, sr.Path)
              new == perPath'[sr.Path]
          IN  /\ new.Late = old.Late + 1
              /\ new.Accepted = old.Accepted
              /\ new.Bytes = old.Bytes
              /\ new.rolling = old.rolling
              /\ new.recentCommits = old.recentCommits
              /\ new.LastSeq >= old.LastSeq ]_vars

\* the last add call was a late observation on a path that already had an
\* anchor and commits, and it carried the highest sequence number so far
C15_Witness ==
    /\ Len(hist) >= 2
    /\ LET sr == hist[Len(hist)]
           st == perPath[sr.Path]
       IN  /\ sr.Recv > sr.Deadline
           /\ st.Late = 1
           /\ st.Accepted >= 1
           /\ st.rolling # Zero32
           /\ st.recentCommits # << >>
           /\ st.LastSeq = sr.Seq
           /\ \A i \in 1..(Len(hist) - 1) : hist[i].Seq < sr.Seq

\* the largest sequence number in a list of observations, 0 for none
MaxSeqOf(os) ==
    IF os = << >> THEN 0
    ELSE CHOOSE m \in { os[i].Seq : i \in 1..Len(os) } :
            \A i \in 1..Len(os) : os[i].Seq <= m

\* C16: after every add call each path's LastSeq is the largest Seq among
\* all observations recorded for it, on time or late (0 when there are
\* none); no add call lowers it; and every call is counted, whatever its
\* sequence number.
C16_LastSeqIsMaximum ==
    [][ \A p \in Paths :
          LET old == StatsOf(perPath, p)
              new == StatsOf(perPath', p)
          IN  /\ new.LastSeq = MaxSeqOf(ObsOf(p)')
              /\ new.LastSeq >= old.LastSeq
              /\ new.Accepted + new.Late = Len(ObsOf(p)') ]_vars

\* a path whose highest sequence number came first and late, followed by
\* a lower number and then the same lower number again
C16_Witness ==
    \E p \in DOMAIN perPath :
        LET os == ObsOf(p)
        IN  /\ Len(os) = 3
            /\ os[1].Recv > os[1].Deadline
            /\ os[1].Seq > os[2].Seq
            /\ os[2].Seq = os[3].Seq
            /\ perPath[p].LastSeq = os[1].Seq
            /\ perPath[p].Accepted + perPath[p].Late = 3

\* the chain of hashes over a list of observations, written out from the
\* zero value: the hash of the chain so far followed by Commit and the
\* 8-byte big-endian Seq, Size, Deadline and Recv of the last observation
RECURSIVE FoldAnchor(_)
FoldAnchor(os) ==
    IF os = << >> THEN Zero32
    ELSE LET o == os[Len(os)]
         IN  [sha256 |-> << FoldAnchor(SubSeq(os, 1, Len(os) - 1)), o.Commit >>
                         \o putU64(o.Seq) \o putU64(o.Size)
                         \o putU64(o.Deadline) \o putU64(o.Recv)]

\* C20: after any sequence of add calls each path's rolling anchor is the
\* left fold of H(rolling || Commit || Seq || Size || Deadline || Recv),
\* from the all-zero value, over the path's on-time observations in
\* arrival order, the late ones leaving it as it is.
C20_RollingIsLeftFold ==
    \A p \in Paths : StatsOf(perPath, p).rolling = FoldAnchor(InTime(p))

\* a path with an on-time, then a late, then another on-time observation
C20_Witness ==
    \E p \in DOMAIN perPath :
        LET os == ObsOf(p)
        IN  /\ Len(os) = 3
            /\ os[1].Recv <= os[1].Deadline
            /\ os[2].Recv > os[2].Deadline
            /\ os[3].Recv <= os[3].Deadline
            /\ os[1] # os[3]
            /\ perPath[p].rolling = FoldAnchor(<< os[1], os[3] >>)

\* the bytes of path name followed by rolling anchor, line after line
RECURSIVE NamesAndAnchors(_, _)
NamesAndAnchors(lines, pp) ==
    IF lines = << >> THEN << >>
    ELSE Head(lines).path \o << pp[Head(lines).path].rolling >>
         \o NamesAndAnchors(Tail(lines), pp)

\* C21: a flush that logs emits one line for every known path and no
\* other, the lines in strictly ascending byte-wise order of path name,
\* each with the path's current counters and anchor, and its global
\* anchor is the hash of path name and rolling anchor concatenated in that
\* order: a function of perPath alone.
C21_FlushSortedOnce ==
    [][ lastFlush' = lastFlush + 1 =>
          LET lines == flushOut'.lines
          IN  /\ { lines[i].path : i \in 1..Len(lines) } = DOMAIN perPath
              /\ Len(lines) = Cardinality(DOMAIN perPath)
              /\ \A i, j \in 1..Len(lines) :
                    i < j => StrLess(lines[i].path, lines[j].path)
              /\ \A i \in 1..Len(lines) :
                    LET st == perPath[lines[i].path]
                    IN  /\ lines[i].last_seq = st.LastSeq
                        /\ lines[i].accepted = st.Accepted
                        /\ lines[i].late = st.Late
                        /\ lines[i].bytes = st.Bytes
                        /\ lines[i].anchor = << [hex |-> st.rolling] >>
              /\ flushOut'.global_anchor =
                    << [hex |-> [sha256 |-> NamesAndAnchors(lines, perPath)]] >> ]_vars

\* a flush has logged three paths, "a", "ab", "b" in this order, that were
\* first observed in another order
C21_Witness ==
    /\ lastFlush = 1
    /\ Len(hist) = 3
    /\ hist[1].Path = PathB
    /\ hist[3].Path = PathA
    /\ Len(flushOut.lines) = 3
    /\ flushOut.lines[1].path = PathA
    /\ flushOut.lines[2].path = PathAB
    /\ flushOut.lines[3].path = PathB

\* C26: a flush call leaves perPath as it was (every path's Accepted,
\* Late, Bytes, LastSeq, rolling anchor and recentCommits, and the set of
\* known paths) and records no observation; with known paths it advances
\* lastFlush, with none it logs nothing and leaves lastFlush alone.
C26_FlushReadOnly ==
    [][ flushCalls' = flushCalls + 1 =>
          /\ DOMAIN perPath' = DOMAIN perPath
          /\ \A p \in DOMAIN perPath :
                /\ perPath'[p].Accepted = perPath[p].Accepted
                /\ perPath'[p].Late = perPath[p].Late
                /\ perPath'[p].Bytes = perPath[p].Bytes
                /\ perPath'[p].LastSeq = perPath[p].LastSeq
                /\ perPath'[p].rolling = perPath[p].rolling
                /\ perPath'[p].recentCommits = perPath[p].recentCommits
          /\ hist' = hist
          /\ DOMAIN perPath = {} => (lastFlush' = lastFlush /\ flushOut' = flushOut)
          /\ DOMAIN perPath # {} => lastFlush' = lastFlush + 1 ]_vars

\* a flush has logged a path with accepted, late and byte counts, and the
\* counts are still what the observations add up to
C26_Witness ==
    /\ flushCalls = 1
    /\ lastFlush = 1
    /\ \E p \in DOMAIN perPath :
          /\ perPath[p].Accepted >= 1
          /\ perPath[p].Late >= 1
          /\ perPath[p].Bytes >= 10
          /\ perPath[p].Accepted + perPath[p].Late = Len(ObsOf(p))
          /\ flushOut.lines[1].path = p
          /\ flushOut.lines[1].accepted = perPath[p].Accepted

\* C27: an add call for path p leaves the stats of every other path as
\* they were; no step removes a path from the map; and the paths in the
\* map are exactly those with at least one recorded observation, on time
\* or late, each with its one streamStats.
C27_AddTouchesOnePath ==
    [][ /\ DOMAIN perPath \subseteq DOMAIN perPath'
        /\ DOMAIN perPath' = { hist'[i].Path : i \in 1..Len(hist') }
        /\ Len(hist') = Len(hist) + 1 =>
              \A q \in DOMAIN perPath :
                  q # hist'[Len(hist')].Path => perPath'[q] = perPath[q] ]_vars

\* three paths are known, the first of them through a late observation
\* only, and the last add call was for another path
C27_Witness ==
    /\ Len(hist) = 3
    /\ Cardinality(DOMAIN perPath) = 3
    /\ hist[1].Recv > hist[1].Deadline
    /\ perPath[hist[1].Path].Late = 1
    /\ perPath[hist[1].Path].Accepted = 0
    /\ perPath[hist[1].Path].LastSeq = hist[1].Seq
    /\ hist[1].Seq >= 1

(* ------------------- QoS aggregator, concurrent ----------------------- *)

\* add and flush statement by statement, called from several goroutines

\* variant: Lock that returns without waiting for the mutex
MutexIgnored(m) == TRUE

\* a.mu.Lock() returns only when the mutex is free
MutexFree(m) == m = 0

\* the observation goroutine g records: the sequence number, the size and
\* the commit follow g, so that the calls can be told apart
ConcObservation(g, p, t) ==
    SegmentReceipt(p, g, 10 * g, 5, t, [commit |-> 1 + (g % 2)])

InitConc ==
    /\ IdleSigner
    /\ IdleAgent
    /\ IdleAnchor
    /\ IdlePump
    /\ IdleAux

\* goroutine g calls a.add(r); onTime is computed from r alone
AddCall(g, p, t) ==
    /\ pc[g] = "idle"
    /\ arg' = [arg EXCEPT ![g] = ConcObservation(g, p, t)]
    /\ pc' = [pc EXCEPT ![g] = "lock"]
    /\ UNCHANGED << mu, perPath, lastFlush, flushOut, hist, flushCalls, flushLocal,
                    signerVars, anchorVars, pumpVars, auxVars >>

\* a.mu.Lock()
AddLock(g) ==
    /\ pc[g] = "lock"
    /\ MutexFree(mu)
    /\ mu' = g
    /\ pc' = [pc EXCEPT ![g] = "lookup"]
    /\ UNCHANGED << arg, perPath, lastFlush, flushOut, hist, flushCalls, flushLocal,
                    signerVars, anchorVars, pumpVars, auxVars >>

\* st := a.perPath[r.Path]; if st == nil { st = &streamStats{}; ... }
AddLookup(g) ==
    /\ pc[g] = "lookup"
    /\ perPath' = IF arg[g].Path \in DOMAIN perPath THEN perPath
                  ELSE (arg[g].Path :> ZeroStats) @@ perPath
    /\ pc' = [pc EXCEPT ![g] = "seq"]
    /\ UNCHANGED << mu, arg, lastFlush, flushOut, hist, flushCalls, flushLocal,
                    signerVars, anchorVars, pumpVars, auxVars >>

\* if r.Seq > st.LastSeq { st.LastSeq = r.Seq }
AddLastSeq(g) ==
    /\ pc[g] = "seq"
    /\ perPath' = IF arg[g].Seq > perPath[arg[g].Path].LastSeq
                  THEN [perPath EXCEPT ![arg[g].Path].LastSeq = arg[g].Seq]
                  ELSE perPath
    /\ pc' = [pc EXCEPT ![g] = IF OnTime(arg[g]) THEN "accepted" ELSE "late"]
    /\ UNCHANGED << mu, arg, lastFlush, flushOut, hist, flushCalls, flushLocal,
                    signerVars, anchorVars, pumpVars, auxVars >>

\* st.Accepted++
AddAccepted(g) ==
    /\ pc[g] = "accepted"
    /\ perPath' = [perPath EXCEPT ![arg[g].Path].Accepted = @ + 1]
    /\ pc' = [pc EXCEPT ![g] = "bytes"]
    /\ UNCHANGED << mu, arg, lastFlush, flushOut, hist, flushCalls, flushLocal,
                    signerVars, anchorVars, pumpVars, auxVars >>

\* st.Bytes += r.Size
AddBytes(g) ==
    /\ pc[g] = "bytes"
    /\ perPath' = [perPath EXCEPT ![arg[g].Path].Bytes = @ + arg[g].Size]
    /\ pc' = [pc EXCEPT ![g] = "rolling"]
    /\ UNCHANGED << mu, arg, lastFlush, flushOut, hist, flushCalls, flushLocal,
                    signerVars, anchorVars, pumpVars, auxVars >>

\* the rolling hash, up to copy(st.rolling[:], h.Sum(nil))
AddRolling(g) ==
    /\ pc[g] = "rolling"
    /\ perPath' = [perPath EXCEPT ![arg[g].Path].rolling = Rolling(@, arg[g])]
    /\ pc' = [pc EXCEPT ![g] = "recent"]
    /\ UNCHANGED << mu, arg, lastFlush, flushOut, hist, flushCalls, flushLocal,
                    signerVars, anchorVars, pumpVars, auxVars >>

\* st.recentCommits = append(...), trimmed to maxRecent
AddRecent(g) ==
    /\ pc[g] = "recent"
    /\ perPath' = [perPath EXCEPT
                      ![arg[g].Path].recentCommits = AppendRecent(@, arg[g].Commit)]
    /\ pc' = [pc EXCEPT ![g] = "unlock"]
    /\ UNCHANGED << mu, arg, lastFlush, flushOut, hist, flushCalls, flushLocal,
                    signerVars, anchorVars, pumpVars, auxVars >>

\* st.Late++
AddLate(g) ==
    /\ pc[g] = "late"
    /\ perPath' = [perPath EXCEPT ![arg[g].Path].Late = @ + 1]
    /\ pc' = [pc EXCEPT ![g] = "unlock"]
    /\ UNCHANGED << mu, arg, lastFlush, flushOut, hist, flushCalls, flushLocal,
                    signerVars, anchorVars, pumpVars, auxVars >>

\* the deferred a.mu.Unlock() of add
AddUnlock(g) ==
    /\ pc[g] = "unlock"
    /\ mu' = 0
    /\ pc' = [pc EXCEPT ![g] = "done"]
    /\ UNCHANGED << arg, perPath, lastFlush, flushOut, hist, flushCalls, flushLocal,
                    signerVars, anchorVars, pumpVars, auxVars >>

\* the ticker fires and Start calls flush: a.mu.Lock()
FlushLock ==
    /\ pc[Flusher] = "idle"
    /\ MutexFree(mu)
    /\ mu' = Flusher
    /\ pc' = [pc EXCEPT ![Flusher] = "check"]
    /\ flushCalls' = flushCalls + 1
    /\ UNCHANGED << arg, perPath, lastFlush, flushOut, hist, flushLocal,
                    signerVars, anchorVars, pumpVars, auxVars >>

\* if len(a.perPath) == 0 { return }; else the keys are collected and sorted
FlushCheck ==
    /\ pc[Flusher] = "check"
    /\ IF DOMAIN perPath = {}
         THEN /\ pc' = [pc EXCEPT ![Flusher] = "unlock"]
              /\ UNCHANGED flushLocal
         ELSE /\ pc' = [pc EXCEPT ![Flusher] = "line"]
              /\ flushLocal' = [NoFlushLocal EXCEPT !.keys = SortStrings(DOMAIN perPath)]
    /\ UNCHANGED << mu, arg, perPath, lastFlush, flushOut, hist, flushCalls,
                    signerVars, anchorVars, pumpVars, auxVars >>

\* one turn of the loop over keys: the path's line is logged and its
\* name and rolling anchor are written to the global hash
FlushLine ==
    /\ pc[Flusher] = "line"
    /\ Len(flushLocal.lines) < Len(flushLocal.keys)
    /\ LET k  == flushLocal.keys[Len(flushLocal.lines) + 1]
           st == perPath[k]
       IN  flushLocal' =
             [flushLocal EXCEPT
                !.lines = Append(@, [path |-> k, last_seq |-> st.LastSeq,
                                     accepted |-> st.Accepted, late |-> st.Late,
                                     bytes |-> st.Bytes, anchor |-> Hex(st.rolling)]),
                !.global = @ \o k \o << st.rolling >>]
    /\ UNCHANGED << mu, pc, arg, perPath, lastFlush, flushOut, hist, flushCalls,
                    signerVars, anchorVars, pumpVars, auxVars >>

\* after the loop: the global anchor is logged, a.lastFlush = time.Now()
FlushSum ==
    /\ pc[Flusher] = "line"
    /\ Len(flushLocal.lines) = Len(flushLocal.keys)
    /\ flushOut' = [lines |-> flushLocal.lines,
                    global_anchor |-> Hex(Sha256(flushLocal.global))]
    /\ lastFlush' = lastFlush + 1
    /\ pc' = [pc EXCEPT ![Flusher] = "unlock"]
    /\ UNCHANGED << mu, arg, perPath, hist, flushCalls, flushLocal, signerVars, anchorVars, pumpVars, auxVars >>

\* the deferred a.mu.Unlock() of flush
FlushUnlock ==
    /\ pc[Flusher] = "unlock"
    /\ mu' = 0
    /\ pc' = [pc EXCEPT ![Flusher] = "done"]
    /\ UNCHANGED << arg, perPath, lastFlush, flushOut, hist, flushCalls, flushLocal,
                    signerVars, anchorVars, pumpVars, auxVars >>

NextConc ==
    \/ \E g \in Adders, p \in {PathA, PathB}, t \in {5, 6} : AddCall(g, p, t)
    \/ \E g \in Adders : AddLock(g)
    \/ \E g \in Adders : AddLookup(g)
    \/ \E g \in Adders : AddLastSeq(g)
    \/ \E g \in Adders : AddAccepted(g)
    \/ \E g \in Adders : AddBytes(g)
    \/ \E g \in Adders : AddRolling(g)
    \/ \E g \in Adders : AddRecent(g)
    \/ \E g \in Adders : AddLate(g)
    \/ \E g \in Adders : AddUnlock(g)
    \/ FlushLock
    \/ FlushCheck
    \/ FlushLine
    \/ FlushSum
    \/ FlushUnlock

SpecConc == InitConc /\ [][NextConc]_vars

\* the positions at which a goroutine reads or writes perPath or a
\* streamStats
InsideLock ==
    {"lookup", "seq", "accepted", "bytes", "rolling", "recent", "late",
     "check", "line", "unlock"}

\* the orders in which the goroutines of S can be lined up
Orders(S) ==
    { o \in [1..Cardinality(S) -> S] : \A i, j \in 1..Cardinality(S) : i # j => o[i] # o[j] }

\* perPath after the add calls of the goroutines in o, made one after
\* another from the empty map
RECURSIVE OneByOne(_)
OneByOne(o) ==
    IF o = << >> THEN << >>
    ELSE LET pp == OneByOne(SubSeq(o, 1, Len(o) - 1))
             sr == arg[o[Len(o)]]
         IN  (sr.Path :> AddStats(StatsOf(pp, sr.Path), sr)) @@ pp

\* C17: under every interleaving of add calls and a flush, a goroutine at a
\* statement that reads or writes perPath or a streamStats holds a.mu; once
\* all add calls have returned perPath is what the same calls made one
\* after another in some order leave; and what flush logs is the state
\* left by some of the calls made one after another, never a state in
\* the middle of an add.
C17_AccessUnderMutex ==
    /\ \A g \in Goroutines : pc[g] \in InsideLock => mu = g
    /\ (\A g \in Adders : pc[g] = "done") =>
          \E o \in Orders(Adders) : perPath = OneByOne(o)
    /\ lastFlush > 0 =>
          \E S \in SUBSET Adders : \E o \in Orders(S) :
              flushOut = [lines |-> FlushLines(OneByOne(o)),
                          global_anchor |-> GlobalAnchor(OneByOne(o))]

\* two on-time add calls on one path have returned, and a flush that ran
\* between them has logged the state the first one left
C17_Witness ==
    /\ \A g \in Goroutines : pc[g] = "done"
    /\ arg[1].Path = arg[2].Path
    /\ OnTime(arg[1]) /\ OnTime(arg[2])
    /\ perPath[arg[1].Path].Accepted = 2
    /\ lastFlush = 1
    /\ flushOut.lines[1].accepted = 1

(* ------------------------ the default agent --------------------------- *)

\* Start and AddReceipt on the package variable defaultAgent

InitDefault ==
    /\ IdleSigner
    /\ IdleAgent
    /\ IdleAnchor
    /\ IdlePump
    /\ IdleAux

\* Start(ctx, log) up to its loop: once.Do runs its function in the first
\* call only, and there defaultAgent = New(log), an agent with an empty map
Start ==
    /\ startCalls < MaxStarts
    /\ startCalls' = startCalls + 1
    /\ IF startCalls = 0
         THEN /\ defaultAgent' = "set"
              /\ perPath' = << >>
         ELSE UNCHANGED << defaultAgent, perPath >>
    /\ UNCHANGED << dropped, lastFlush, flushOut, hist, flushCalls, concVars,
                    signerVars, anchorVars, pumpVars, encVars >>

\* a tick of a Start loop: defaultAgent.flush(ctx)
StartTick ==
    /\ defaultAgent = "set"
    /\ flush

\* what AddReceipt's `defaultAgent == nil` can read. Start writes the
\* variable inside once.Do and AddReceipt reads it with no lock, channel or
\* once in between: unless the caller is otherwise ordered after that
\* write, the read races with it and may still return nil
ReadDefaultAgent(ordered) ==
    IF defaultAgent = "nil" THEN {"nil"}
    ELSE IF ordered THEN {"set"}
    ELSE {"nil", "set"}

\* AddReceipt(sr): return if defaultAgent is read as nil, else
\* defaultAgent.add(sr)
AddReceipt(sr, ordered) ==
    \E seen \in ReadDefaultAgent(ordered) :
        IF seen = "nil"
        THEN /\ Len(hist) + Len(dropped) < MaxAdds
             /\ dropped' = Append(dropped, sr)
             /\ UNCHANGED << defaultAgent, startCalls, agentVars, signerVars,
                             anchorVars, pumpVars, encVars >>
        ELSE /\ Len(hist) + Len(dropped) < MaxAdds
             /\ add(sr)

NextDefault ==
    \/ Start
    \/ StartTick
    \/ \E sr \in Observations, ordered \in BOOLEAN : AddReceipt(sr, ordered)

SpecDefault == InitDefault /\ [][NextDefault]_vars

\* C28: AddReceipt returns without recording only while no default agent
\* exists, and then creates no state; no Start call records anything or
\* replaces the agent's map, so a dropped observation is never counted
\* later; and once the default agent exists it stays, every AddReceipt
\* being recorded in it however many Start calls follow.
C28_DropOnlyBeforeStart ==
    [][ /\ Len(dropped') = Len(dropped) + 1 =>
              (defaultAgent = "nil" /\ perPath' = perPath /\ hist' = hist)
        /\ startCalls' = startCalls + 1 => (perPath' = perPath /\ hist' = hist)
        /\ defaultAgent = "set" => defaultAgent' = "set" ]_vars

(* --------------------------- Merkle batcher ---------------------------- *)

\* variant: the leaf hash without its domain tag
MerkleLeafNoTag(rc) == Sha256(<< digest(rc) >>)

\* MerkleLeaf: H("leaf" || digest(receipt))
MerkleLeaf(rc) == Sha256(LeafTag \o << digest(rc) >>)

\* variant: the last node of an odd level carried up unpaired
RECURSIVE MerkleizePromoteOdd(_)
MerkleizePromoteOdd(nodes) ==
    IF Len(nodes) = 1 THEN nodes[1]
    ELSE LET pairs == [i \in 1..(Len(nodes) \div 2) |->
                          Sha256(<< nodes[2 * i - 1], nodes[2 * i] >>)]
             next == IF Len(nodes) % 2 = 1
                     THEN Append(pairs, nodes[Len(nodes)])
                     ELSE pairs
         IN  MerkleizePromoteOdd(next)

RECURSIVE merkleize(_)
merkleize(nodes) ==
    IF Len(nodes) = 1 THEN nodes[1]
    ELSE LET padded == IF Len(nodes) % 2 = 1
                       THEN Append(nodes, nodes[Len(nodes)])
                       ELSE nodes
             next == [i \in 1..(Len(padded) \div 2) |->
                         Sha256(<< padded[2 * i - 1], padded[2 * i] >>)]
         IN  merkleize(next)

MerkleRoot(receipts) ==
    IF Len(receipts) = 0 THEN Zero32
    ELSE merkleize([i \in 1..Len(receipts) |-> MerkleLeaf(receipts[i])])

\* variant: a less function that forgets the path
LessSeqOnly(x, y) == x.Seq < y.Seq

\* the less function AggregateAnchor hands to sort.Slice
Less(x, y) ==
    IF x.Path = y.Path THEN x.Seq < y.Seq ELSE StrLess(x.Path, y.Path)

\* the rearrangements of a slice
Rearrangements(s) ==
    { [i \in 1..Len(s) |-> s[f[i]]] : f \in Permutations(1..Len(s)) }

\* variant: the slice left in the order it came in
SortSliceLeavesOrder(s) == {s}

\* sort.Slice(rs, less): the slice rearranged so that no element is less
\* than an earlier one; the sort is not stable, so elements that compare
\* equal may end in any order
SortSlice(s) ==
    { q \in Rearrangements(s) :
        \A i, j \in 1..Len(q) : i < j => ~ Less(q[j], q[i]) }

\* the receipts batches are made of: two receipts share (Path, Seq) and
\* differ in the nonce
BatchReceipts ==
    { SignedReceipt(NewSessionSignerValue(1),
                    FromSegment(SegmentReceipt(x[1], x[2], 10, 5, 5, [commit |-> 1]), x[3])) :
        x \in { << PathA, 2, 0 >>, << PathA, 1, 0 >>, << PathAB, 1, 0 >>,
                << PathB, 1, 0 >>, << PathB, 1, 1 >> } }

InitAnchor ==
    /\ IdleSigner
    /\ IdleAgent
    /\ IdleAnchor
    /\ IdlePump
    /\ IdleAux

\* the caller appends a receipt to the batch
Collect(rc) ==
    /\ Len(rs) < MaxBatch
    /\ rs' = Append(rs, rc)
    /\ calls' = << >>
    /\ rootRet' = << >>
    /\ UNCHANGED << signerVars, agentVars, pumpVars, auxVars >>

\* root := MerkleRoot(rs)
MerkleRootCall ==
    /\ rootRet' = [input |-> rs, root |-> MerkleRoot(rs)]
    /\ UNCHANGED << rs, calls, signerVars, agentVars, pumpVars, auxVars >>

\* anchor := AggregateAnchor(rs), the caller holding the batch in the order
\* `input`; the slice is sorted in place
AggregateAnchor(input) ==
    /\ Len(calls) < 2
    /\ IF Len(input) = 0
         THEN /\ calls' = Append(calls, [input |-> input, sorted |-> input,
                                         anchor |-> << >>])
              /\ rs' = input
         ELSE \E q \in SortSlice(input) :
                /\ rs' = q
                /\ calls' = Append(calls, [input |-> input, sorted |-> q,
                                           anchor |-> Hex(MerkleRoot(q))])
    /\ rootRet' = << >>
    /\ UNCHANGED << signerVars, agentVars, pumpVars, auxVars >>

NextAnchor ==
    \/ \E rc \in BatchReceipts : Collect(rc)
    \/ MerkleRootCall
    \/ \E input \in Rearrangements(rs) : AggregateAnchor(input)

SpecAnchor == InitAnchor /\ [][NextAnchor]_vars

\* no two receipts of the batch share (Path, Seq)
DistinctKeys(s) ==
    \A i, j \in 1..Len(s) :
        i # j => ~ (s[i].Path = s[j].Path /\ s[i].Seq = s[j].Seq)

\* C6: for a batch in which no two receipts share (Path, Seq),
\* AggregateAnchor returns the same string for every order of the batch.
C6_AnchorPermutationInvariant ==
    \A i, j \in 1..Len(calls) :
        (calls[i].input \in Rearrangements(calls[j].input) /\ DistinctKeys(calls[i].input))
            => calls[i].anchor = calls[j].anchor

\* two calls on different orders of a batch of at least two receipts with
\* distinct keys
C6_Witness ==
    /\ Len(calls) = 2
    /\ Len(calls[1].input) >= 2
    /\ DistinctKeys(calls[1].input)
    /\ calls[1].input # calls[2].input
    /\ calls[2].input # calls[2].sorted
    /\ calls[1].anchor = calls[2].anchor

\* C7: MerkleRoot of the empty batch is the all-zero 32-byte value, and
\* MerkleRoot of a one-receipt batch [x] is H("leaf" || digest(x)).
C7_RootOfEmptyAndSingle ==
    rootRet # << >> =>
        /\ Len(rootRet.input) = 0 => rootRet.root = [zeros |-> 32]
        /\ Len(rootRet.input) = 1 =>
              rootRet.root = Sha256(<< [tag |-> "leaf", len |-> 4], digest(rootRet.input[1]) >>)

\* MerkleRoot was called on a one-receipt batch
C7_Witness ==
    /\ rootRet # << >>
    /\ Len(rootRet.input) = 1
    /\ rootRet.root # [zeros |-> 32]

RefLeaf(rc) == [sha256 |-> << [tag |-> "leaf", len |-> 4], digest(rc) >>]

\* one level paired off from the left, a node left over paired with itself,
RECURSIVE RefPairs(_)
RefPairs(level) ==
    IF level = << >> THEN << >>
    ELSE IF Len(level) = 1 THEN << [sha256 |-> << level[1], level[1] >>] >>
    ELSE << [sha256 |-> << level[1], level[2] >>] >> \o RefPairs(Tail(Tail(level)))

\* and levels paired off until one node remains
RECURSIVE RefReduce(_)
RefReduce(level) == IF Len(level) = 1 THEN level[1] ELSE RefReduce(RefPairs(level))

RefRoot(batch) == RefReduce([i \in 1..Len(batch) |-> RefLeaf(batch[i])])

\* C19: for every non-empty batch MerkleRoot is the root of the reference
\* construction (leaves in input order, each level paired left to right,
\* the last node of an odd level paired with itself), also on the batch
\* taken twice over, where an inner level is odd; and every different order
\* of the batch has a different root.
C19_MerkleRootIsReference ==
    (rootRet # << >> /\ Len(rootRet.input) >= 1) =>
        /\ rootRet.root = RefRoot(rootRet.input)
        /\ MerkleRoot(rootRet.input \o rootRet.input)
              = RefRoot(rootRet.input \o rootRet.input)
        /\ \A q \in Rearrangements(rootRet.input) :
              q # rootRet.input => MerkleRoot(q) # rootRet.root

\* MerkleRoot was called on three receipts, the first and the last
\* different: the third leaf is paired with itself
C19_Witness ==
    /\ rootRet # << >>
    /\ Len(rootRet.input) = 3
    /\ rootRet.input[1] # rootRet.input[3]
    /\ rootRet.root =
          [sha256 |-> << [sha256 |-> << RefLeaf(rootRet.input[1]), RefLeaf(rootRet.input[2]) >>],
                         [sha256 |-> << RefLeaf(rootRet.input[3]), RefLeaf(rootRet.input[3]) >>] >>]

(* ------------------------------- Pump ---------------------------------- *)

\* the value a receive from the closed input channel yields:
\* service.SegmentReceipt{}, whose zero times are written as -1
ZeroSegment == SegmentReceipt(<< >>, 0, 0, -1, -1, Zero32)

PumpObservations ==
    { SegmentReceipt(PathA, q, 10, 5, 5, [commit |-> 1]) : q \in 1..MaxSeq }

InitPump ==
    /\ signer \in {NilSigner, NewSessionSignerValue(1)}
    /\ closed = FALSE
    /\ r = ZeroReceipt
    /\ signRet = "none"
    /\ signedAfterClose = FALSE
    /\ tampered = FALSE
    /\ verifyRet = "none"
    /\ IdleCopy
    /\ IdleAgent
    /\ IdleAnchor
    /\ IdleAux
    /\ ctxDone = FALSE
    /\ inCh = << >>
    /\ inClosed = FALSE
    /\ produced = 0
    /\ outCap \in 0..MaxOutCap
    /\ outBuf = << >>
    /\ received = << >>
    /\ pumpPc = "select"
    /\ pumpR = ZeroReceipt
    /\ pumpRet = "running"
    /\ dequeued = 0
    /\ sentLog = << >>

\* a producer sends an observation on `in`
Produce(sr) ==
    /\ ~ inClosed
    /\ produced < MaxProduced
    /\ Len(inCh) < MaxInCap
    /\ inCh' = Append(inCh, sr)
    /\ produced' = produced + 1
    /\ sentLog' = Append(sentLog, sr)
    /\ UNCHANGED << ctxDone, inClosed, outCap, outBuf, received, pumpPc, pumpR,
                    pumpRet, dequeued, signerVars, agentVars, anchorVars, auxVars >>

\* the producer closes `in`
CloseIn ==
    /\ ~ inClosed
    /\ inClosed' = TRUE
    /\ UNCHANGED << ctxDone, inCh, produced, outCap, outBuf, received, pumpPc, pumpR,
                    pumpRet, dequeued, sentLog, signerVars, agentVars, anchorVars, auxVars >>

\* the owner of ctx cancels it
Cancel ==
    /\ ~ ctxDone
    /\ ctxDone' = TRUE
    /\ UNCHANGED << inCh, inClosed, produced, outCap, outBuf, received, pumpPc, pumpR,
                    pumpRet, dequeued, sentLog, signerVars, agentVars, anchorVars, auxVars >>

\* select chooses case <-ctx.Done(): return ctx.Err()
PumpCancelled ==
    /\ pumpPc = "select"
    /\ ctxDone
    /\ pumpPc' = "returned"
    /\ pumpRet' = "context canceled"
    /\ UNCHANGED << ctxDone, inCh, inClosed, produced, outCap, outBuf, received, pumpR,
                    dequeued, sentLog, signerVars, agentVars, anchorVars, auxVars >>

\* variant: a failed Sign skipped over, Pump going back to its select
PumpReceiveSkipsFailure(nonce) ==
    /\ pumpPc = "select"
    /\ inCh # << >> \/ inClosed
    /\ Len(received) + Len(outBuf) < MaxBuilt
    /\ LET sr     == IF inCh # << >> THEN Head(inCh) ELSE ZeroSegment
           unsig  == FromSegment(sr, nonce)
       IN  /\ inCh' = IF inCh # << >> THEN Tail(inCh) ELSE inCh
           /\ dequeued' = IF inCh # << >> THEN dequeued + 1 ELSE dequeued
           /\ IF SignGuardFails(signer)
                THEN /\ pumpPc' = "select"
                     /\ pumpRet' = "signer not initialized"
                     /\ pumpR' = unsig
                ELSE /\ pumpPc' = "send"
                     /\ pumpRet' = pumpRet
                     /\ pumpR' = SignedReceipt(signer, unsig)
    /\ UNCHANGED << ctxDone, inClosed, produced, outCap, outBuf, received,
                    sentLog, signerVars, agentVars, anchorVars, auxVars >>

\* select chooses case sr := <-in (a value is waiting, or `in` is closed and
\* yields the zero value); FromSegment with the clock as nonce, then Sign;
\* select takes any ready case, whether or not ctx.Done() is ready too
PumpReceive(nonce) ==
    /\ pumpPc = "select"
    /\ inCh # << >> \/ inClosed
    /\ Len(received) + Len(outBuf) < MaxBuilt
    /\ LET sr     == IF inCh # << >> THEN Head(inCh) ELSE ZeroSegment
           unsig  == FromSegment(sr, nonce)
       IN  /\ inCh' = IF inCh # << >> THEN Tail(inCh) ELSE inCh
           /\ dequeued' = IF inCh # << >> THEN dequeued + 1 ELSE dequeued
           /\ IF SignGuardFails(signer)
                THEN /\ pumpPc' = "returned"
                     /\ pumpRet' = "signer not initialized"
                     /\ pumpR' = unsig
                ELSE /\ pumpPc' = "send"
                     /\ pumpRet' = pumpRet
                     /\ pumpR' = SignedReceipt(signer, unsig)
    /\ UNCHANGED << ctxDone, inClosed, produced, outCap, outBuf, received,
                    sentLog, signerVars, agentVars, anchorVars, auxVars >>

\* out <- r completes into the channel's buffer
PumpSend ==
    /\ pumpPc = "send"
    /\ Len(outBuf) < outCap
    /\ outBuf' = Append(outBuf, pumpR)
    /\ pumpPc' = "select"
    /\ UNCHANGED << ctxDone, inCh, inClosed, produced, outCap, received, pumpR,
                    pumpRet, dequeued, sentLog, signerVars, agentVars, anchorVars, auxVars >>

\* out <- r completes by handing the receipt to a consumer that is receiving
PumpSendToReceiver ==
    /\ pumpPc = "send"
    /\ outBuf = << >>
    /\ received' = Append(received, pumpR)
    /\ pumpPc' = "select"
    /\ UNCHANGED << ctxDone, inCh, inClosed, produced, outCap, outBuf, pumpR,
                    pumpRet, dequeued, sentLog, signerVars, agentVars, anchorVars, auxVars >>

\* a consumer receives a buffered receipt from `out`
Consume ==
    /\ outBuf # << >>
    /\ received' = Append(received, Head(outBuf))
    /\ outBuf' = Tail(outBuf)
    /\ UNCHANGED << ctxDone, inCh, inClosed, produced, outCap, pumpPc, pumpR,
                    pumpRet, dequeued, sentLog, signerVars, agentVars, anchorVars, auxVars >>

PumpReceiveAny == \E n \in 0..MaxNonce : PumpReceive(n)

NextPump ==
    \/ \E sr \in PumpObservations : Produce(sr)
    \/ CloseIn
    \/ Cancel
    \/ PumpCancelled
    \/ PumpReceiveAny
    \/ PumpSend
    \/ PumpSendToReceiver
    \/ Consume

SpecPump == InitPump /\ [][NextPump]_vars

\* Pump's goroutine runs whenever it can take a step of its own, and select
\* picks among its ready cases at random, so a case that is ready again and
\* again is eventually picked; nothing obliges a consumer to receive
FairSpecPump ==
    /\ InitPump
    /\ [][NextPump]_vars
    /\ WF_vars(PumpReceiveAny)
    /\ SF_vars(PumpCancelled)
    /\ WF_vars(PumpSend)

\* C9: once cancellation is raised, Pump eventually returns, whatever the
\* state of the input and output channels (also with no consumer receiving
\* from the output channel).
C9_CancelLeadsToReturn == ctxDone ~> (pumpPc = "returned")

\* C10: after cancellation has been raised Pump dequeues no further
\* observation from the input channel.
C10_NoDequeueAfterCancel == [][ ctxDone => dequeued' = dequeued ]_vars

\* C14: when Pump stops because of cancellation the value it returns is
\* not an error value (it is nil).
C14_CancelReturnsNoError == [][ PumpCancelled => pumpRet' = "nil" ]_vars

\* the receipts sent on `out` so far, oldest first
Emitted == received \o outBuf

\* the receipt carries the observation's six fields and Version 1
CarriesObservation(rc, sr) ==
    /\ rc.Version = 1
    /\ rc.Path = sr.Path /\ rc.Seq = sr.Seq /\ rc.Size = sr.Size
    /\ rc.Deadline = sr.Deadline /\ rc.Recv = sr.Recv /\ rc.Commit = sr.Commit

\* C23: while Pump is not cancelled and no Sign has failed, the receipts
\* sent on `out`, with the one held at `out <- r`, are as many as the
\* observations dequeued from `in` and the i-th carries the i-th
\* observation's fields, Version 1 and a signature Verify accepts.
C23_OneReceiptPerObservation ==
    (~ ctxDone /\ pumpRet = "running") =>
        LET E == Emitted \o (IF pumpPc = "send" THEN << pumpR >> ELSE << >>)
        IN  /\ Len(E) = dequeued
            /\ \A i \in 1..Len(E) :
                  CarriesObservation(E[i], sentLog[i]) /\ Verify(E[i]) = "nil"

\* C24: the step in which Sign fails inside Pump is Pump's return with
\* that error and sends nothing, and from then on Pump dequeues nothing
\* and sends nothing.
C24_SignFailureReturns ==
    [][ /\ (pumpRet = "running" /\ pumpRet' = "signer not initialized") =>
              (pumpPc' = "returned" /\ Emitted' = Emitted)
        /\ pumpRet = "signer not initialized" =>
              /\ pumpPc' = "returned"
              /\ pumpRet' = pumpRet
              /\ dequeued' = dequeued
              /\ inCh' = inCh \/ (inCh' # << >> /\ SubSeq(inCh', 1, Len(inCh)) = inCh)
              /\ Emitted' = Emitted ]_vars

\* Pump has returned Sign's error on the first observation while a second
\* one waits on `in`, and nothing was sent
C24_Witness ==
    /\ pumpPc = "returned"
    /\ pumpRet = "signer not initialized"
    /\ dequeued = 1
    /\ Len(sentLog) = 2
    /\ inCh = << sentLog[2] >>
    /\ Emitted = << >>

\* C25: every receipt Pump has sent on `out` carries the fields of an
\* observation a producer sent on `in` (so none is sent for a receive
\* from the closed, drained channel).
C25_EmittedWereProduced ==
    \A i \in 1..Len(Emitted) :
        \E j \in 1..Len(sentLog) : CarriesObservation(Emitted[i], sentLog[j])

=============================================================================
